---- MODULE Spec2Model ----
(***************************************************************************)
(* A model of the azure-setup repository:                                  *)
(*   src/script.py                      the init / setup / reset script    *)
(*   src/pytest_scraper/app/scraper.py  scrape_example                     *)
(* The cloud (resource groups, their tags and the resources inside them),  *)
(* the container instance, the docker tool, the user at the prompt and     *)
(* another actor working on the same subscription are the environment.     *)
(* Every external call of the script is one step: it may succeed or raise, *)
(* and the environment may act between two steps.                          *)
(***************************************************************************)
EXTENDS Integers, Sequences, FiniteSets, TLC

\* ------------------------------------------------------------------ bounds
\* consecutive runs of the script in one behaviour
MaxRuns == 2
\* steps of another actor on the subscription in one behaviour
MaxOther == 1
\* lines the container writes to its log
MaxLog == 2
\* os.urandom(3).hex() draws one of 2^24 suffixes; the model draws from 0..MaxSuffix
MaxSuffix == 1
\* length of the body of an HTTP response
MaxBody == 2

\* ------------------------------------------------------------- python values
\* os.getenv of an unset variable, dict.get of a missing key. The environment is the
\* process's after load_dotenv().
None == "<None>"

\* Strings whose characters matter are sequences of one-character strings.
LowerChar(c) ==
    CASE c = "Y" -> "y"
      [] c = "N" -> "n"
      [] c = "E" -> "e"
      [] c = "S" -> "s"
      [] OTHER -> c

\* str.lower()
Lower(s) == [i \in DOMAIN s |-> LowerChar(s[i])]

\* truth value of an os.getenv result: None and "" are false
Truthy(v) == v # None /\ v # ""

\* ------------------------------------------------------------------- tags
\* A tags value is None or a dict, here a set of <<key, value>> pairs.
NoTags == [isNone |-> TRUE, kv |-> {}]
Dict(kv) == [isNone |-> FALSE, kv |-> kv]

\* a variant: the value written "True"
RESOURCE_TAG_True == Dict({<<"blazetest", "True">>})

\* RESOURCE_TAG = {"blazetest": "true"}
RESOURCE_TAG == Dict({<<"blazetest", "true">>})

\* dict.get(key)
TagGet(tags, k) ==
    IF \E p \in tags.kv : p[1] = k
    THEN (CHOOSE p \in tags.kv : p[1] = k)[2]
    ELSE None

\* truth value of rg.tags: None and {} are false
TagsTruthy(tags) == ~tags.isNone /\ tags.kv # {}

\* the tags a resource group may carry
TagChoices ==
    { NoTags, Dict({}), RESOURCE_TAG,
      Dict({<<"blazetest", "True">>}),
      Dict({<<"env", "prod">>}) }

\* the tags another actor puts on a group while the script runs
OtherTags == { RESOURCE_TAG, Dict({<<"blazetest", "True">>}) }

\* ------------------------------------------------------------------ names
rg_name == "blazetest-rg"
GroupNames == {rg_name, "other-rg"}

EnvNames ==
    {"AZURE_CLIENT_ID", "AZURE_CLIENT_SECRET", "AZURE_TENANT_ID", "AZURE_SUBSCRIPTION_ID"}
EnvValues == {None, "", "v"}
\* the environments a run may start in: complete, one variable unset or empty, none set
Environs ==
    { e \in [EnvNames -> EnvValues] :
        \/ Cardinality({ n \in EnvNames : e[n] # "v" }) <= 1
        \/ \A n \in EnvNames : e[n] = None }

Choices == {"init", "setup", "reset"}
\* what may stand on the command line
Argv == Choices \cup {"Init", "delete", "-h"}

\* what the user may type at the prompt; Eof is end of input (input() raises)
Eof == <<"^D">>
Answers == { <<"y">>, <<"Y">>, <<"n">>, << >>, <<"y", "e", "s">>, <<"Y", "E", "S">>, Eof }

Terminal == {"Terminated", "Succeeded", "Failed"}
\* states of a container group's instance view
CgStates == {"Pending", "Running", "Stopped"} \cup Terminal

Suffix == 0 .. MaxSuffix

Absent == [exists |-> FALSE, tags |-> NoTags]
Group(t) == [exists |-> TRUE, tags |-> t]

Res(kind, rg, name) == [kind |-> kind, rg |-> rg, name |-> name]
\* the container group blazetest-test-runner
Runner == Res("aci", rg_name, 0)

VARIABLES
    \* the subscription
    groups, resources, cgState, cgLog,
    \* the running process
    pc, command, environ, status, clients, called, out,
    \* locals of setup, run_tests_in_aci and reset
    acr_name, last_log, state, rgs_to_delete, confirm,
    \* history: external steps started and completed, deletes issued, the listing,
    \* what was typed at the prompt
    trace, done, deleted, listing, prompted,
    \* budgets
    runs, others,
    \* scrape_example
    s_pc, response, result

cloudVars == <<groups, resources, cgState, cgLog>>
procVars == <<pc, command, environ, status, clients, called, out>>
localVars == <<acr_name, last_log, state, rgs_to_delete, confirm>>
histVars == <<trace, done, deleted, listing, prompted>>
scrapeVars == <<s_pc, response, result>>
vars == <<cloudVars, procVars, localVars, histVars, runs, others, scrapeVars>>

\* ---------------------------------------------------------------- helpers
\* a variant: any([...]) in place of all([...])
get_credentials_any(env) == \E n \in EnvNames : Truthy(env[n])

\* get_credentials returns normally iff all four variables are set and non-empty
get_credentials(env) == \A n \in EnvNames : Truthy(env[n])

\* argparse with choices=["init", "setup", "reset"]: "ok", "help" (exit 0) or "usage" (exit 2)
parse_args(arg) ==
    IF arg \in Choices THEN "ok" ELSE IF arg = "-h" THEN "help" ELSE "usage"

\* a variant: a chain that ends in else: setup()
Dispatch_else(cmd) == IF cmd = "init" THEN "init" ELSE "setup"

\* the if / elif chain of main: the function a parsed command invokes
Dispatch(cmd) ==
    IF cmd = "init" THEN "init"
    ELSE IF cmd = "setup" THEN "setup"
    ELSE "reset"

\* a variant: the tag is present, whatever its value
IsTagged_any(tags) == TagsTruthy(tags) /\ TagGet(tags, "blazetest") # None

\* the filter of reset's list comprehension
IsTagged(tags) == TagsTruthy(tags) /\ TagGet(tags, "blazetest") = "true"

\* a variant: "Failed" is not in the list
IsFinished_ok(st) == st \in {"Terminated", "Succeeded"}

\* the test that ends the polling loop
IsFinished(st) == st \in Terminal

\* the test after the prompt: the lowered answer is "y"
Confirmed(answer) == Lower(answer) = <<"y">>

\* all orders in which a listing may return the set S of names
RECURSIVE Orders(_)
Orders(S) ==
    IF S = {} THEN { << >> }
    ELSE UNION { { <<x>> \o t : t \in Orders(S \ {x}) } : x \in S }

Last(s) == s[Len(s)]

\* deleting a resource group deletes what is inside it
InGroup(g) == { r \in resources : r.rg = g }

NoLocals ==
    /\ acr_name = 0 /\ last_log = << >> /\ state = None
    /\ rgs_to_delete = << >> /\ confirm = << >>

NoListing == [g \in GroupNames |-> Absent]

\* ------------------------------------------------------------------- Init
\* no process runs; scrape_example is about to be called
Idle ==
    /\ pc = "idle" /\ command = None /\ status = "none"
    /\ environ = [n \in EnvNames |-> None]
    /\ clients = {} /\ called = << >> /\ out = {}
    /\ NoLocals
    /\ trace = << >> /\ done = 0 /\ deleted = << >>
    /\ listing = NoListing /\ prompted = << >>
    /\ s_pc = "call" /\ response = [kind |-> "none", code |-> 0, text |-> << >>]
    /\ result = [type |-> "none", val |-> << >>]

\* what earlier runs of setup may have left in blazetest-rg
Leftovers ==
    { {},
      {Res("storage", rg_name, 0), Res("acr", rg_name, 0)},
      {Res("storage", rg_name, 0), Res("acr", rg_name, 0), Runner} }

\* one run of the script on a subscription in any state, shared with another actor
Init ==
    /\ groups \in [GroupNames -> {Absent} \cup { Group(t) : t \in TagChoices }]
    /\ groups[rg_name] \in {Absent, Group(RESOURCE_TAG)}
    /\ resources \in Leftovers
    /\ \A r \in resources : groups[r.rg].exists
    /\ IF Runner \in resources
       THEN cgState \in {"Running", "Failed"} /\ cgLog = <<1>>
       ELSE cgState = "absent" /\ cgLog = << >>
    /\ Idle
    /\ runs = 1 /\ others = 0

\* a subscription nobody else works on; the script is run up to MaxRuns times in a row
InitSolo ==
    /\ \E t \in TagChoices :
          groups = [g \in GroupNames |-> IF g = rg_name THEN Absent ELSE Group(t)]
    /\ resources = {}
    /\ cgState = "absent" /\ cgLog = << >>
    /\ Idle
    /\ runs = MaxRuns /\ others = 0

\* --------------------------------------------------------- the process
\* an external step: started, and completed when it did not raise
Step(name, ok) ==
    /\ trace' = Append(trace, name)
    /\ done' = IF ok THEN done + 1 ELSE done

NoStep == UNCHANGED <<trace, done>>

Goto(l) == pc' = l /\ status' = status
\* an exception nobody catches ends the process
Raise == pc' = "exit" /\ status' = "error"
Return == pc' = "exit" /\ status' = "ok"

\* the shell starts the script with one argument and an environment
Exec ==
    /\ pc = "idle" /\ runs > 0
    /\ \E arg \in Argv, env \in Environs :
          /\ command' = arg
          /\ environ' = env
    /\ runs' = runs - 1
    /\ pc' = "main" /\ status' = "none"
    /\ UNCHANGED <<cloudVars, clients, called, out, localVars, histVars, others, scrapeVars>>

\* main: parse the arguments, then call init, setup or reset
main ==
    /\ pc = "main"
    /\ IF parse_args(command) = "ok"
       THEN /\ called' = Append(called, Dispatch(command))
            /\ pc' = Dispatch(command) /\ status' = status
       ELSE /\ called' = called
            /\ pc' = "exit" /\ status' = parse_args(command)
    /\ UNCHANGED <<cloudVars, command, environ, clients, out, localVars, histVars,
                   runs, others, scrapeVars>>

\* the process is gone: its memory with it
Exit ==
    /\ pc = "exit"
    /\ pc' = "idle" /\ command' = None /\ status' = "none"
    /\ environ' = [n \in EnvNames |-> None]
    /\ clients' = {} /\ called' = << >> /\ out' = {}
    /\ acr_name' = 0 /\ last_log' = << >> /\ state' = None
    /\ rgs_to_delete' = << >> /\ confirm' = << >>
    /\ trace' = << >> /\ done' = 0 /\ deleted' = << >>
    /\ listing' = NoListing /\ prompted' = << >>
    /\ UNCHANGED <<cloudVars, runs, others, scrapeVars>>

\* ------------------------------------------------------------------ init
\* init: get_credentials, then the resource client
Init_Start ==
    /\ pc = "init"
    /\ out' = out \cup {"Verifying"}
    /\ IF get_credentials(environ)
       THEN clients' = clients \cup {"Resource"} /\ Goto("init_list")
       ELSE clients' = clients /\ Raise
    /\ UNCHANGED <<cloudVars, command, environ, called, localVars, histVars,
                   runs, others, scrapeVars>>

\* resource_groups.list(), then the count is printed
Init_List ==
    /\ pc = "init_list"
    /\ \E ok \in BOOLEAN :
          /\ Step("rg_list", ok)
          /\ IF ok THEN out' = out \cup {"Verified"} /\ Return
                   ELSE out' = out /\ Raise
    /\ UNCHANGED <<cloudVars, command, environ, clients, called, localVars,
                   deleted, listing, prompted, runs, others, scrapeVars>>

\* ----------------------------------------------------------------- setup
\* setup: get_credentials, then the resource client
Setup_Start ==
    /\ pc = "setup"
    /\ out' = out \cup {"Creating"}
    /\ IF get_credentials(environ)
       THEN clients' = clients \cup {"Resource"} /\ Goto("setup_rg")
       ELSE clients' = clients /\ Raise
    /\ UNCHANGED <<cloudVars, command, environ, called, localVars, histVars,
                   runs, others, scrapeVars>>

\* resource_groups.create_or_update(rg_name, {location, tags: RESOURCE_TAG})
Setup_RG ==
    /\ pc = "setup_rg"
    /\ \E ok \in BOOLEAN :
          /\ Step("rg_create", ok)
          /\ IF ok
             THEN /\ groups' = [groups EXCEPT ![rg_name] = Group(RESOURCE_TAG)]
                  /\ Goto("setup_storage")
             ELSE /\ groups' = groups
                  /\ Raise
    /\ UNCHANGED <<resources, cgState, cgLog, command, environ, clients, called, out,
                   localVars, deleted, listing, prompted, runs, others, scrapeVars>>

\* "blazeteststorage" + os.urandom(3).hex(), storage_accounts.begin_create(...).result()
Setup_Storage ==
    /\ pc = "setup_storage"
    /\ clients' = clients \cup {"Storage"}
    /\ \E sfx \in Suffix, ok \in BOOLEAN :
          LET worked == ok /\ groups[rg_name].exists IN
          /\ Step("storage_create", worked)
          /\ IF worked
             THEN /\ resources' = resources \cup {Res("storage", rg_name, sfx)}
                  /\ Goto("setup_acr")
             ELSE /\ resources' = resources
                  /\ Raise
    /\ UNCHANGED <<groups, cgState, cgLog, command, environ, called, out,
                   localVars, deleted, listing, prompted, runs, others, scrapeVars>>

\* "blazetestacr" + os.urandom(3).hex(), registries.begin_create(...).result()
Setup_ACR ==
    /\ pc = "setup_acr"
    /\ clients' = clients \cup {"ContainerRegistry"}
    /\ \E sfx \in Suffix, ok \in BOOLEAN :
          LET worked == ok /\ groups[rg_name].exists IN
          /\ acr_name' = sfx
          /\ Step("acr_create", worked)
          /\ IF worked
             THEN /\ resources' = resources \cup {Res("acr", rg_name, sfx)}
                  /\ Goto("setup_build")
             ELSE /\ resources' = resources
                  /\ Raise
    /\ UNCHANGED <<groups, cgState, cgLog, command, environ, called, out,
                   last_log, state, rgs_to_delete, confirm,
                   deleted, listing, prompted, runs, others, scrapeVars>>

\* a variant: subprocess.run without check=True, a non-zero exit is ignored
Docker_unchecked(here, name, next) ==
    /\ pc = here
    /\ \E ok \in BOOLEAN :
          /\ Step(name, ok)
          /\ Goto(next)
    /\ UNCHANGED <<cloudVars, command, environ, clients, called, out, localVars,
                   deleted, listing, prompted, runs, others, scrapeVars>>

\* subprocess.run([docker ...], check=True): a non-zero exit raises
Docker(here, name, next) ==
    /\ pc = here
    /\ \E ok \in BOOLEAN :
          /\ Step(name, ok)
          /\ IF ok THEN Goto(next) ELSE Raise
    /\ UNCHANGED <<cloudVars, command, environ, clients, called, out, localVars,
                   deleted, listing, prompted, runs, others, scrapeVars>>

Setup_Build == Docker("setup_build", "docker_build", "setup_listcreds")

\* registries.list_credentials(rg_name, acr_name)
Setup_ListCreds ==
    /\ pc = "setup_listcreds"
    /\ \E ok \in BOOLEAN :
          LET worked == ok /\ Res("acr", rg_name, acr_name) \in resources IN
          /\ Step("acr_credentials", worked)
          /\ IF worked THEN Goto("setup_login") ELSE Raise
    /\ UNCHANGED <<cloudVars, command, environ, clients, called, out, localVars,
                   deleted, listing, prompted, runs, others, scrapeVars>>

Setup_Login == Docker("setup_login", "docker_login", "setup_push")

Setup_Push == Docker("setup_push", "docker_push", "aci")

\* ------------------------------------------------------- run_tests_in_aci
\* run_tests_in_aci: get_credentials, then the container instance client
Aci_Start ==
    /\ pc = "aci"
    /\ out' = out \cup {"Running"}
    /\ IF get_credentials(environ)
       THEN clients' = clients \cup {"ContainerInstance"} /\ Goto("aci_create")
       ELSE clients' = clients /\ Raise
    /\ UNCHANGED <<cloudVars, command, environ, called, localVars, histVars,
                   runs, others, scrapeVars>>

\* container_groups.begin_create_or_update(...).result(); last_log = ""
Aci_Create ==
    /\ pc = "aci_create"
    /\ \E ok \in BOOLEAN :
          LET worked == ok /\ groups[rg_name].exists IN
          /\ Step("aci_create", worked)
          /\ IF worked
             THEN /\ resources' = resources \cup {Runner}
                  /\ cgState' = "Pending" /\ cgLog' = << >>
                  /\ out' = out \cup {"Started"}
                  /\ last_log' = << >>
                  /\ Goto("aci_logs")
             ELSE /\ UNCHANGED <<resources, cgState, cgLog, out, last_log>>
                  /\ Raise
    /\ UNCHANGED <<groups, command, environ, clients, called,
                   acr_name, state, rgs_to_delete, confirm,
                   deleted, listing, prompted, runs, others, scrapeVars>>

\* the loop's first half: containers.list_logs, printed when it differs from last_log.
\* The poll is one step of setup: it starts with the first list_logs.
Aci_ListLogs ==
    /\ pc = "aci_logs"
    /\ trace' = IF Last(trace) = "poll" THEN trace ELSE Append(trace, "poll")
    /\ done' = done
    /\ \E ok \in BOOLEAN :
          IF ok /\ Runner \in resources
          THEN /\ last_log' = cgLog
               /\ Goto("aci_get")
          ELSE /\ last_log' = last_log
               /\ Raise
    /\ UNCHANGED <<cloudVars, command, environ, clients, called, out,
                   acr_name, state, rgs_to_delete, confirm,
                   deleted, listing, prompted, runs, others, scrapeVars>>

\* the loop's second half: container_groups.get, cg.instance_view.state, the break
Aci_Get ==
    /\ pc = "aci_get"
    /\ trace' = trace
    /\ \E ok \in BOOLEAN :
          IF ok /\ Runner \in resources
          THEN /\ state' = cgState
               /\ IF IsFinished(cgState)
                  THEN done' = done + 1 /\ Goto("aci_delete")
                  ELSE done' = done /\ Goto("aci_sleep")
          ELSE /\ state' = state /\ done' = done
               /\ Raise
    /\ UNCHANGED <<cloudVars, command, environ, clients, called, out,
                   acr_name, last_log, rgs_to_delete, confirm,
                   deleted, listing, prompted, runs, others, scrapeVars>>

\* time.sleep(2), then the next iteration
Aci_Sleep ==
    /\ pc = "aci_sleep"
    /\ Goto("aci_logs")
    /\ UNCHANGED <<cloudVars, command, environ, clients, called, out, localVars,
                   histVars, runs, others, scrapeVars>>

\* container_groups.begin_delete(...).wait(); back in setup, "Setup complete!"
Aci_Delete ==
    /\ pc = "aci_delete"
    /\ \E ok \in BOOLEAN :
          LET worked == ok /\ groups[rg_name].exists IN
          /\ Step("aci_delete", worked)
          /\ IF worked
             THEN /\ resources' = resources \ {Runner}
                  /\ cgState' = "absent" /\ cgLog' = << >>
                  /\ out' = out \cup {"Deleted", "SetupComplete"}
                  /\ Return
             ELSE /\ UNCHANGED <<resources, cgState, cgLog, out>>
                  /\ Raise
    /\ UNCHANGED <<groups, command, environ, clients, called, localVars,
                   deleted, listing, prompted, runs, others, scrapeVars>>

\* ----------------------------------------------------------------- reset
\* reset: get_credentials, then the resource client
Reset_Start ==
    /\ pc = "reset"
    /\ out' = out \cup {"Deleting"}
    /\ IF get_credentials(environ)
       THEN clients' = clients \cup {"Resource"} /\ Goto("reset_list")
       ELSE clients' = clients /\ Raise
    /\ UNCHANGED <<cloudVars, command, environ, called, localVars, histVars,
                   runs, others, scrapeVars>>

\* rgs_to_delete = [rg.name for rg in resource_groups.list() if ...]; empty: return
Reset_List ==
    /\ pc = "reset_list"
    /\ \E ok \in BOOLEAN :
          /\ Step("rg_list", ok)
          /\ IF ok
             THEN /\ listing' = groups
                  /\ \E order \in Orders({ g \in GroupNames :
                                             groups[g].exists /\ IsTagged(groups[g].tags) }) :
                        /\ rgs_to_delete' = order
                        /\ IF order = << >>
                           THEN out' = out \cup {"NoResources"} /\ Return
                           ELSE out' = out \cup {"WillDelete"} /\ Goto("reset_confirm")
             ELSE /\ UNCHANGED <<listing, rgs_to_delete, out>>
                  /\ Raise
    /\ UNCHANGED <<cloudVars, command, environ, clients, called,
                   acr_name, last_log, state, confirm,
                   deleted, prompted, runs, others, scrapeVars>>

\* confirm = input("Proceed with deletion? (y/n): ").lower(); not "y": return
Reset_Confirm ==
    /\ pc = "reset_confirm"
    /\ \E a \in Answers :
          /\ prompted' = Append(prompted, a)
          /\ IF a = Eof
             THEN /\ UNCHANGED <<confirm, out>>
                  /\ Raise
             ELSE /\ confirm' = Lower(a)
                  /\ IF Confirmed(a)
                     THEN out' = out /\ Goto("reset_delete")
                     ELSE out' = out \cup {"Aborted"} /\ Return
    /\ UNCHANGED <<cloudVars, command, environ, clients, called,
                   acr_name, last_log, state, rgs_to_delete,
                   trace, done, deleted, listing, runs, others, scrapeVars>>

\* a variant: the error of a delete is caught and the loop goes on with the next group
DeleteFailed_continue ==
    IF Len(deleted) + 1 = Len(rgs_to_delete)
    THEN pc' = "exit" /\ status' = "ok"
    ELSE pc' = "reset_delete" /\ status' = status

\* begin_delete(...).wait() raises: nothing catches it, the loop is left
DeleteFailed == Raise

\* one iteration of the last loop: resource_groups.begin_delete(rg_name).wait()
Reset_Delete ==
    /\ pc = "reset_delete"
    /\ LET i == Len(deleted) + 1
           g == rgs_to_delete[i]
       IN \E ok \in BOOLEAN :
            LET worked == ok /\ groups[g].exists IN
            /\ Step("rg_delete", worked)
            /\ deleted' = Append(deleted, [name |-> g, was |-> groups[g],
                                            held |-> InGroup(g), ok |-> worked])
            /\ IF worked
               THEN /\ groups' = [groups EXCEPT ![g] = Absent]
                    /\ resources' = resources \ InGroup(g)
                    /\ cgState' = IF g = rg_name THEN "absent" ELSE cgState
                    /\ cgLog' = IF g = rg_name THEN << >> ELSE cgLog
                    /\ IF i = Len(rgs_to_delete) THEN Return ELSE Goto("reset_delete")
               ELSE /\ UNCHANGED cloudVars
                    /\ DeleteFailed
    /\ UNCHANGED <<command, environ, clients, called, out, localVars,
                   listing, prompted, runs, others, scrapeVars>>

\* ------------------------------------------------------------ the container
\* the container group blazetest-test-runner starts, runs and ends (restart_policy Never)
Cg_Progress ==
    /\ Runner \in resources
    /\ \/ cgState = "Pending" /\ cgState' \in {"Running", "Failed"}
       \/ cgState = "Running" /\ cgState' \in Terminal
    /\ UNCHANGED <<groups, resources, cgLog, procVars, localVars, histVars,
                   runs, others, scrapeVars>>

\* pytest writes a line
Cg_Write ==
    /\ Runner \in resources /\ cgState = "Running"
    /\ Len(cgLog) < MaxLog
    /\ cgLog' = Append(cgLog, Len(cgLog) + 1)
    /\ UNCHANGED <<groups, resources, cgState, procVars, localVars, histVars,
                   runs, others, scrapeVars>>

\* ---------------------------------------------------------- another actor
\* somebody else creates a resource group or replaces the tags of one
Other_Put ==
    /\ others < MaxOther
    /\ \E g \in GroupNames, t \in OtherTags :
          /\ groups[g] # Group(t)
          /\ groups' = [groups EXCEPT ![g] = Group(t)]
    /\ others' = others + 1
    /\ UNCHANGED <<resources, cgState, cgLog, procVars, localVars, histVars,
                   runs, scrapeVars>>

\* somebody else deletes a resource group
Other_Delete ==
    /\ others < MaxOther
    /\ \E g \in GroupNames :
          /\ groups[g].exists
          /\ groups' = [groups EXCEPT ![g] = Absent]
          /\ resources' = resources \ InGroup(g)
          /\ cgState' = IF g = rg_name THEN "absent" ELSE cgState
          /\ cgLog' = IF g = rg_name THEN << >> ELSE cgLog
    /\ others' = others + 1
    /\ UNCHANGED <<procVars, localVars, histVars, runs, scrapeVars>>

\* somebody else stops the container group
Other_Stop ==
    /\ others < MaxOther
    /\ Runner \in resources /\ cgState \in {"Pending", "Running"}
    /\ cgState' = "Stopped"
    /\ others' = others + 1
    /\ UNCHANGED <<groups, resources, cgLog, procVars, localVars, histVars,
                   runs, scrapeVars>>

\* --------------------------------------------------------- scrape_example
StatusCodes == {200, 204, 304, 400, 404, 500, 503}

RECURSIVE Texts(_)
\* the texts of at most n characters
Texts(n) ==
    IF n = 0 THEN { << >> }
    ELSE Texts(n - 1) \cup { Append(t, c) : t \in { u \in Texts(n - 1) : Len(u) = n - 1 },
                                            c \in {"<", "a"} }

\* the exceptions of requests.get, all of them RequestException
GetErrors == {"ConnectionError", "Timeout", "TooManyRedirects"}

Str(t) == [type |-> "str", val |-> t]

\* Response.raise_for_status raises HTTPError for 4xx and 5xx
raise_for_status(code) == 400 <= code /\ code < 600

\* a variant: the except branch returns None
on_RequestException_None == [type |-> "NoneType", val |-> << >>]

\* the except branch: print, return ""
on_RequestException == Str(<< >>)

\* requests.get(url, headers=headers, timeout=5)
Scrape_Get ==
    /\ s_pc = "call"
    /\ \/ \E e \in GetErrors :
            /\ response' = [kind |-> e, code |-> 0, text |-> << >>]
            /\ result' = on_RequestException
            /\ s_pc' = "returned"
       \/ \E c \in StatusCodes, t \in Texts(MaxBody) :
            /\ response' = [kind |-> "Response", code |-> c, text |-> t]
            /\ result' = result
            /\ s_pc' = "got"
    /\ UNCHANGED <<cloudVars, procVars, localVars, histVars, runs, others>>

\* response.raise_for_status(), then return response.text
Scrape_Return ==
    /\ s_pc = "got"
    /\ result' = IF raise_for_status(response.code)
                 THEN on_RequestException
                 ELSE Str(response.text)
    /\ s_pc' = "returned"
    /\ UNCHANGED <<response, cloudVars, procVars, localVars, histVars, runs, others>>

\* ------------------------------------------------------- specifications
Prog ==
    \/ Exec \/ main \/ Exit
    \/ Init_Start \/ Init_List
    \/ Setup_Start \/ Setup_RG \/ Setup_Storage \/ Setup_ACR \/ Setup_Build
    \/ Setup_ListCreds \/ Setup_Login \/ Setup_Push
    \/ Aci_Start \/ Aci_Create \/ Aci_ListLogs \/ Aci_Get \/ Aci_Sleep \/ Aci_Delete
    \/ Reset_Start \/ Reset_List \/ Reset_Confirm \/ Reset_Delete

Container == Cg_Progress \/ Cg_Write

Other == Other_Put \/ Other_Delete \/ Other_Stop

\* the script, the container and another actor on the subscription
Next == Prog \/ Container \/ Other

Spec == Init /\ [][Next]_vars

\* the script alone on the subscription
NextSolo == Prog \/ Container

SpecSolo == InitSolo /\ [][NextSolo]_vars

\* run_tests_in_aci keeps running: a sequential process takes its next step
Poll == Aci_ListLogs \/ Aci_Get \/ Aci_Sleep \/ Aci_Delete

\* one run of setup with complete credentials; what an earlier run left may be there
InitSetup ==
    /\ groups \in [GroupNames -> {Absent, Group(RESOURCE_TAG)}]
    /\ resources \in SUBSET {Res("storage", rg_name, 0), Runner}
    /\ \A r \in resources : groups[r.rg].exists
    /\ IF Runner \in resources
       THEN cgState \in CgStates /\ cgLog \in {<< >>, <<1>>}
       ELSE cgState = "absent" /\ cgLog = << >>
    /\ pc = "main" /\ command = "setup" /\ status = "none"
    /\ environ = [n \in EnvNames |-> "v"]
    /\ clients = {} /\ called = << >> /\ out = {}
    /\ NoLocals
    /\ trace = << >> /\ done = 0 /\ deleted = << >>
    /\ listing = NoListing /\ prompted = << >>
    /\ runs = 0 /\ others = 0
    /\ s_pc = "call" /\ response = [kind |-> "none", code |-> 0, text |-> << >>]
    /\ result = [type |-> "none", val |-> << >>]

NextSetup ==
    \/ main \/ Exit
    \/ Setup_Start \/ Setup_RG \/ Setup_Storage \/ Setup_ACR \/ Setup_Build
    \/ Setup_ListCreds \/ Setup_Login \/ Setup_Push
    \/ Aci_Start \/ Aci_Create \/ Aci_ListLogs \/ Aci_Get \/ Aci_Sleep \/ Aci_Delete
    \/ Container \/ Other_Stop

SpecFair == InitSetup /\ [][NextSetup]_vars /\ WF_vars(Poll)

NextScrape == Scrape_Get \/ Scrape_Return

SpecScrape == Init /\ [][NextScrape]_vars

\* ----------------------------------------------------------------- claims
\* a resource group that exists and carries blazetest = "true"
HasTrueTag(g) == g.exists /\ ~g.tags.isNone /\ <<"blazetest", "true">> \in g.tags.kv

Yes == { <<"y">>, <<"Y">> }

IsPrefix(s, t) == Len(s) <= Len(t) /\ \A i \in DOMAIN s : s[i] = t[i]

\* C1: reset issues a delete only for a group that was listed with blazetest = "true", and
\* only after the answer "y" or "Y"; when the listing holds no such group it returns
\* without prompting; after any other answer it issues no delete.
C1_ResetDeletesOnlyListedAndConfirmed ==
    /\ \A i \in DOMAIN deleted :
          /\ HasTrueTag(listing[deleted[i].name])
          /\ Len(prompted) = 1 /\ prompted[1] \in Yes
    /\ (command = "reset" /\ done >= 1 /\ \A g \in GroupNames : ~HasTrueTag(listing[g]))
          => (prompted = << >> /\ deleted = << >> /\ pc = "exit" /\ status = "ok")
    /\ (prompted # << >> /\ prompted[1] \notin Yes)
          => (deleted = << >> /\ pc = "exit" /\ trace = <<"rg_list">>)

\* reset deleted a tagged group and left alone a listed group without the tag
C1_Witness ==
    /\ command = "reset" /\ pc = "exit" /\ status = "ok"
    /\ Len(deleted) = 1 /\ deleted[1].ok
    /\ \E g \in GroupNames :
          /\ listing[g].exists /\ TagGet(listing[g].tags, "blazetest") = "True"
          /\ groups[g].exists

CredsMissing == \E n \in EnvNames : environ[n] \in {None, ""}

\* C2: with one of the four variables unset or empty, init, setup and reset end in an
\* error before any client is constructed and before any cloud call or docker command.
C2_MissingCredentialsStopEverything ==
    (pc # "idle" /\ CredsMissing) =>
        /\ clients = {} /\ trace = << >> /\ deleted = << >>
        /\ pc \in {"main", "init", "setup", "reset", "exit"}
        /\ (pc = "exit" /\ command \in Choices) => status = "error"

\* setup ended in an error because one variable is empty
C2_Witness ==
    /\ pc = "exit" /\ command = "setup" /\ status = "error"
    /\ environ["AZURE_TENANT_ID"] = ""
    /\ \A n \in EnvNames \ {"AZURE_TENANT_ID"} : environ[n] = "v"

\* C3: scrape_example returns a list with at least one element, whatever the request did.
C3_ReturnsNonEmptyList ==
    s_pc = "returned" => (result.type = "list" /\ Len(result.val) > 0)

InitPcs == {"init", "init_list"}
SetupPcs ==
    {"setup", "setup_rg", "setup_storage", "setup_acr", "setup_build", "setup_listcreds",
     "setup_login", "setup_push", "aci", "aci_create", "aci_logs", "aci_get", "aci_sleep",
     "aci_delete"}
ResetPcs == {"reset", "reset_list", "reset_confirm", "reset_delete"}

\* C5: a run calls exactly the one function its subcommand names; any other argument
\* ends the run in the parser with nothing called; init only lists resource groups.
C5_OneFunctionPerSubcommand ==
    /\ Len(called) <= 1
    /\ (pc \notin {"idle", "main"}) =>
          IF command \in {"init", "setup", "reset"}
          THEN called = <<command>>
          ELSE /\ called = << >> /\ pc = "exit" /\ status \in {"usage", "help"}
               /\ trace = << >> /\ clients = {}
    /\ (pc \in InitPcs => command = "init")
    /\ (pc \in SetupPcs => command = "setup")
    /\ (pc \in ResetPcs => command = "reset")
    /\ (command = "init") => (trace \in { << >>, <<"rg_list">> } /\ deleted = << >>)

\* init ran to its end and did nothing but list
C5_Witness ==
    /\ command = "init" /\ pc = "exit" /\ status = "ok" /\ trace = <<"rg_list">>

SetupOrder ==
    << "rg_create", "storage_create", "acr_create", "docker_build", "acr_credentials",
       "docker_login", "docker_push", "aci_create", "poll", "aci_delete" >>

\* C6: the external steps of setup are started in the fixed order, each at most once,
\* each only after all earlier ones completed; a failed step is the last one, and
\* "Setup complete!" is printed only after all ten completed.
C6_SetupStepsInOrder ==
    (command = "setup") =>
        /\ IsPrefix(trace, SetupOrder)
        /\ \/ done = Len(trace)
           \/ /\ done = Len(trace) - 1
              /\ \/ pc = "exit" /\ status = "error"
                 \/ pc \in {"aci_logs", "aci_get", "aci_sleep"} /\ Last(trace) = "poll"
        /\ ("SetupComplete" \in out) =>
              (trace = SetupOrder /\ done = Len(SetupOrder) /\ status = "ok")
        /\ (status = "error") => "SetupComplete" \notin out

\* setup ran to its end
C6_Witness == command = "setup" /\ pc = "exit" /\ "SetupComplete" \in out

InLoop == pc \in {"aci_logs", "aci_get", "aci_sleep"}

\* C7: the loop is left for the delete exactly when a status read returns Terminated,
\* Succeeded or Failed; any other state read leads to one sleep and the next poll; the
\* delete is issued only after such a read; and once the container group stays in one of
\* the three states, a running loop ends (with the delete, when nothing raised).
C7_PollUntilTerminal ==
    /\ [][ (pc = "aci_get" /\ pc' = "aci_delete")
              => (state' = cgState /\ state' \in Terminal) ]_vars
    /\ [][ (pc = "aci_get" /\ pc' = "aci_sleep")
              => (state' = cgState /\ state' \notin Terminal) ]_vars
    /\ [][ (pc = "aci_get" /\ pc' # "aci_get")
              => \/ pc' = "exit" /\ status' = "error"
                 \/ pc' = (IF cgState \in Terminal THEN "aci_delete" ELSE "aci_sleep") ]_vars
    /\ [][ (pc = "aci_sleep") => (pc' \in {"aci_sleep", "aci_logs"}) ]_vars
    /\ []( ("aci_delete" \in { trace[i] : i \in DOMAIN trace }) => state \in Terminal )
    /\ []( (pc = "exit" /\ command = "setup" /\ status = "ok")
              => (Last(trace) = "aci_delete" /\ Runner \notin resources) )
    /\ (<>[](InLoop => cgState \in Terminal)) => (InLoop ~> (pc = "exit"))

\* the loop printed two lines, read Failed and left for the delete
C7_Witness == pc = "aci_delete" /\ state = "Failed" /\ last_log = <<1, 2>>

\* C8: when the loop is left, the log printed last is the complete log of the container.
C8_AllOutputPrinted ==
    (pc = "aci_delete" /\ cgState \in Terminal) => last_log = cgLog

StorageAccounts == { r \in resources : r.kind = "storage" }
Registries == { r \in resources : r.kind = "acr" }

\* what C9 says apart from the fresh names: everything setup creates lies in blazetest-rg,
\* which carries blazetest = "true"; setup touches no other resource group; a reset that
\* completes after "y" (or finds nothing to delete) leaves nothing behind.
C9_RoundTrip ==
    /\ [](\A r \in resources :
            /\ r.rg = "blazetest-rg"
            /\ HasTrueTag(groups["blazetest-rg"]))
    /\ [][ (command = "setup") =>
              \A g \in GroupNames \ {"blazetest-rg"} : groups'[g] = groups[g] ]_vars
    /\ []( (command = "reset" /\ pc = "exit" /\ status = "ok"
                /\ (prompted = << >> \/ prompted[1] \in Yes))
              => (resources = {} /\ ~groups["blazetest-rg"].exists) )

\* the storage step and the registry step each add one resource
C9_FreshNames ==
    /\ [][ (pc = "setup_storage" /\ pc' = "setup_acr")
              => Cardinality(StorageAccounts') = Cardinality(StorageAccounts) + 1 ]_vars
    /\ [][ (pc = "setup_acr" /\ pc' = "setup_build")
              => Cardinality(Registries') = Cardinality(Registries) + 1 ]_vars

\* C9 as written: the round trip, and every run adds a new storage account and a new
\* registry.
C9_Original == C9_RoundTrip /\ C9_FreshNames

\* C9 amended: the round trip, and a storage step or registry step that succeeds leaves
\* an account or registry with the drawn suffix in blazetest-rg, new unless the suffix
\* repeats one that is there.
C9_Amended ==
    /\ C9_RoundTrip
    /\ [][ (pc = "setup_storage" /\ pc' = "setup_acr")
              => \E sfx \in Suffix :
                    resources' = resources \cup {Res("storage", "blazetest-rg", sfx)} ]_vars
    /\ [][ (pc = "setup_acr" /\ pc' = "setup_build")
              => resources' = resources \cup {Res("acr", "blazetest-rg", acr_name')} ]_vars

\* a reset answered "y" deleted blazetest-rg with what a setup run had put in it
C9_Witness ==
    /\ command = "reset" /\ pc = "exit" /\ status = "ok"
    /\ Len(prompted) = 1 /\ prompted[1] \in Yes
    /\ \E i \in DOMAIN deleted :
          /\ deleted[i].name = "blazetest-rg" /\ deleted[i].ok
          /\ \E r \in deleted[i].held : r.kind = "storage"
    /\ resources = {}

\* what C10 says apart from the tag at the delete: the list is computed by one listing and
\* not changed afterwards; the deletes follow it in order; a failed delete is the last
\* one; reset itself never brings a group back.
C10_ListOnceDeleteInOrder ==
    /\ []( (command = "reset") =>
              /\ Cardinality({ i \in DOMAIN trace : trace[i] = "rg_list" }) <= 1
              /\ (pc \in {"reset_confirm", "reset_delete"} \/ deleted # << >>) =>
                    /\ rgs_to_delete \in Orders({ g \in GroupNames : HasTrueTag(listing[g]) })
                    /\ Len(deleted) <= Len(rgs_to_delete)
                    /\ \A i \in DOMAIN deleted : deleted[i].name = rgs_to_delete[i]
              /\ \A i \in DOMAIN deleted : (i < Len(deleted)) => deleted[i].ok
              /\ (deleted # << >> /\ ~Last(deleted).ok) => (pc = "exit" /\ status = "error") )
    /\ [][ (command = "reset" /\ others' = others) =>
              \A g \in GroupNames : groups'[g].exists => groups[g].exists ]_vars

\* C10 as written: moreover every group deleted carries the tag when its delete is issued.
C10_Original ==
    /\ C10_ListOnceDeleteInOrder
    /\ [](\A i \in DOMAIN deleted : deleted[i].ok => HasTrueTag(deleted[i].was))

\* C10 amended: moreover every group deleted carried the tag when it was listed.
C10_Amended ==
    /\ C10_ListOnceDeleteInOrder
    /\ [](\A i \in DOMAIN deleted : HasTrueTag(listing[deleted[i].name]))

\* a group whose tag was changed after the listing was deleted, the next delete failed
C10_Witness ==
    /\ Len(deleted) = 2 /\ pc = "exit"
    /\ deleted[1].ok /\ ~HasTrueTag(deleted[1].was)
    /\ ~deleted[2].ok

====
